---------------------------- MODULE Spec2Model ----------------------------
(***************************************************************************)
(* A model of the feedback backend router (feedback-backend, router.ts):   *)
(* the handlers of POST /, GET /:id, PATCH /:id and DELETE /:id, the       *)
(* store they share, and the outbound calls of the submission workflow     *)
(* (catalog lookups, tracker calls, mail).  Every await of a handler is a  *)
(* point where other requests may run, so a handler is a chain of actions. *)
(*                                                                         *)
(* Strings the code inspects (summary, description, tag, references) are   *)
(* sequences of one-character strings; a JSON object is a function from    *)
(* the names of the fields it has to their values, so an absent field is   *)
(* a name that is not in the DOMAIN.  A character is a UTF-16 code unit,   *)
(* as String.length counts them, written as itself when it is printable    *)
(* ASCII or one of \t, \n, \f, \r, and by its code otherwise: "U+00A0" is *)
(* the one character NO-BREAK SPACE.                                       *)
(***************************************************************************)
EXTENDS Integers, Sequences, FiniteSets, TLC

----------------------------------------------------------------------------
(* Bounds of the model *)

MaxReq == 3
MaxPost == 2

(* router.ts:63, the longest summary that is stored as submitted *)
SummaryLimit == 255

----------------------------------------------------------------------------
(* Strings *)

Rep(c, n) == [i \in 1..n |-> c]

(* the characters String.prototype.trim strips: the WhiteSpace and the     *)
(* LineTerminator productions of ECMAScript (TAB, VT, FF, ZWNBSP, the      *)
(* space separators of Unicode; LF, CR, LS, PS)                            *)
WhiteSpace ==
  {"\t", "U+000B", "\f", "U+FEFF",
   " ", "U+00A0", "U+1680", "U+2000", "U+2001", "U+2002", "U+2003",
   "U+2004", "U+2005", "U+2006", "U+2007", "U+2008", "U+2009", "U+200A",
   "U+202F", "U+205F", "U+3000",
   "\n", "\r", "U+2028", "U+2029"}

(* String.prototype.trim: what lies between the first and the last        *)
(* character that is not white space                                       *)
Trim(s) ==
  LET solid == {i \in 1..Len(s) : s[i] \notin WhiteSpace}
  IN  IF solid = {}
        THEN <<>>
        ELSE SubSeq(s, CHOOSE i \in solid : \A j \in solid : i <= j,
                       CHOOSE i \in solid : \A j \in solid : i >= j)

(* String.prototype.split(sep) for a one-character separator: the pieces   *)
(* between the separators, in order                                        *)
RECURSIVE Split(_, _)
Split(s, sep) ==
  IF \A i \in 1..Len(s) : s[i] # sep
    THEN <<s>>
    ELSE LET k == CHOOSE i \in 1..Len(s) :
                     s[i] = sep /\ \A j \in 1..(i - 1) : s[j] # sep
         IN  <<SubSeq(s, 1, k - 1)>> \o Split(SubSeq(s, k + 1, Len(s)), sep)

S_undefined == <<"u", "n", "d", "e", "f", "i", "n", "e", "d">>

(* `${x.split('/')[1]}`: the second piece, "undefined" when there is none  *)
NamePart(ref) ==
  LET parts == Split(ref, "/")
  IN  IF Len(parts) >= 2 THEN parts[2] ELSE S_undefined

(* s contains pat as a substring *)
Contains(s, pat) ==
  \E i \in 1..(Len(s) - Len(pat) + 1) : SubSeq(s, i, i + Len(pat) - 1) = pat

S_Excellent == <<"E", "x", "c", "e", "l", "l", "e", "n", "t">>
S_Good == <<"G", "o", "o", "d">>
S_Bad == <<"B", "a", "d">>

(* tag.match(/(Excellent|Good)/g) is not null *)
MatchesPositive(tag) == Contains(tag, S_Excellent) \/ Contains(tag, S_Good)

S_Feedback == <<"F", "e", "e", "d", "b", "a", "c", "k">>
S_Issue == <<"I", "s", "s", "u", "e">>
S_reportedBy == <<" ", "r", "e", "p", "o", "r", "t", "e", "d", " ", "b", "y", " ">>
S_for == <<" ", "f", "o", "r", " ">>
S_dash == <<" ", "-", " ">>
S_reportedFor ==
  <<" ", "r", "e", "p", "o", "r", "t", "e", "d", " ", "f", "o", "r", " ">>
S_blankLine == <<"\n", "\n">>

(* The characters String.prototype.toUpperCase turns into the capital c,   *)
(* for the capitals the router compares with: the letter in either case,   *)
(* and for I also dotless i.  No other character has a capital made of     *)
(* these letters, and none has an empty one.                               *)
UpperCaseOf(c) ==
  CASE c = "A" -> {"A", "a"}
    [] c = "I" -> {"I", "i", "U+0131"}
    [] c = "J" -> {"J", "j"}
    [] c = "L" -> {"L", "l"}
    [] c = "M" -> {"M", "m"}
    [] c = "R" -> {"R", "r"}

(* s.toUpperCase() === word, for a word of the capitals above: every       *)
(* character of s becomes at least one character, so s has the length of   *)
(* word and each of its characters becomes the capital in its place        *)
UpperCaseIs(s, word) ==
  /\ Len(s) = Len(word)
  /\ \A i \in 1..Len(word) : s[i] \in UpperCaseOf(word[i])

S_JIRA == <<"J", "I", "R", "A">>
S_MAIL == <<"M", "A", "I", "L">>

----------------------------------------------------------------------------
(* JSON objects *)

Has(o, f) == f \in DOMAIN o

(* o with field f set to v *)
Put(o, f, v) == [g \in DOMAIN o \cup {f} |-> IF g = f THEN v ELSE o[g]]

(* the fields of d written over those of o *)
Merge(o, d) ==
  [g \in DOMAIN o \cup DOMAIN d |-> IF g \in DOMAIN d THEN d[g] ELSE o[g]]

Empty == [g \in {} |-> 0]

(* o without field f *)
Without(o, f) == [g \in DOMAIN o \ {f} |-> o[g]]

----------------------------------------------------------------------------
(* The environment: the catalog, the configuration, the request bodies *)

(* entity references *)
P_doc == <<"c", ":", "d", "/", "d", "o", "c">>
P_api == <<"c", ":", "d", "/", "a", "p", "i">>
P_web == <<"c", ":", "d", "/", "w", "e", "b">>
P_app == <<"c", ":", "d", "/", "a", "p", "p">>
P_lib == <<"c", ":", "d", "/", "l", "i", "b">>
P_old == <<"c", ":", "d", "/", "o", "l", "d">>
P_gone == <<"c", ":", "d", "/", "g", "o", "n", "e">>
U_ann == <<"u", ":", "d", "/", "a", "n", "n">>

(* feedback.integrations.jira of the configuration: {host, token} entries *)
JiraIntegrations ==
  << [host |-> "https://jira.one", token |-> "t1"],
     [host |-> "https://jira.two", token |-> "t2"] >>

(* The entities of the catalog, as getEntityByRef returns them (metadata   *)
(* flattened); a reference the catalog does not know gives undefined,      *)
(* which reads like an object with no fields under the code's `?.`.        *)
Catalog(ref) ==
  CASE ref = P_doc ->
         [name |-> <<"d", "o", "c">>, title |-> <<"D", "o", "c", "s">>]
    [] ref = P_api ->
         [name |-> <<"a", "p", "i">>,
          annotations |-> [type |-> <<"j", "i", "r", "a">>,
                           projectKey |-> "API"]]
    [] ref = P_web ->
         [name |-> <<"w", "e", "b">>, title |-> <<"W", "e", "b">>,
          annotations |-> [type |-> S_MAIL]]
    [] ref = P_app ->
         [name |-> <<"a", "p", "p">>,
          annotations |-> [type |-> S_JIRA,
                           host |-> "https://jira.two",
                           projectKey |-> "APP",
                           emailTo |-> "team@example.com"]]
    [] ref = P_lib ->
         [name |-> <<"l", "i", "b">>,
          annotations |-> [emailTo |-> "team@example.com"]]
    [] ref = P_old ->
         [name |-> <<"o", "l", "d">>,
          annotations |-> [type |-> <<"j", "U+0131", "r", "a">>,
                           projectKey |-> "OLD",
                           emailTo |-> ""]]
    [] OTHER -> Empty

(* the key the tracker answers a ticket creation with, as the tracker of   *)
(* the repository's tests does: "proj-key-01" for the project "proj-key"   *)
TicketKey(projectKey) == projectKey \o "-01"

(* the usernames the tracker may answer a lookup with; undefined is "no    *)
(* account for that email"                                                 *)
JiraUsernames == {"ann", "undefined"}

ReporterEmail == "ann@example.com"

----------------------------------------------------------------------------
(* The pure parts of the handlers *)

(* router.ts:48, the summary check of POST / *)
SummaryEmpty(body) ==
  \/ ~Has(body, "summary")
  \/ body.summary = <<>>
  \/ Len(Trim(body.summary)) < 1

(* router.ts:60-61 *)
FeedbackTypeName(reqData) ==
  IF Has(reqData, "feedbackType") /\ reqData.feedbackType = "FEEDBACK"
    THEN S_Feedback
    ELSE S_Issue

(* `${reqData.createdBy?.split('/')[1]}` *)
ReporterName(reqData) ==
  IF Has(reqData, "createdBy") THEN NamePart(reqData.createdBy) ELSE S_undefined

(* `${entityRef?.metadata.title || entityRef?.metadata.name}` *)
TitleOrName(entityRef) ==
  IF Has(entityRef, "title") /\ entityRef.title # <<>>
    THEN entityRef.title
    ELSE IF Has(entityRef, "name") THEN entityRef.name ELSE S_undefined

(* reqData.description || '' *)
DescriptionOrEmpty(reqData) ==
  IF Has(reqData, "description") THEN reqData.description ELSE <<>>

(* router.ts:67-69, the summary written in place of a long one *)
ShortSummary(reqData, entityRef) ==
  FeedbackTypeName(reqData) \o S_reportedBy \o ReporterName(reqData)
    \o S_for \o TitleOrName(entityRef)

(* DemoteSummary with the limit off by one: a summary of exactly the       *)
(* limit is demoted too                                                    *)
DemoteSummaryAtLimit(reqData, entityRef) ==
  IF Len(reqData.summary) >= SummaryLimit
    THEN Put(Put(reqData, "description",
                 reqData.summary \o S_blankLine \o DescriptionOrEmpty(reqData)),
             "summary", ShortSummary(reqData, entityRef))
    ELSE reqData

(* router.ts:63-70: a summary over the limit moves into the description *)
DemoteSummary(reqData, entityRef) ==
  IF Len(reqData.summary) > SummaryLimit
    THEN Put(Put(reqData, "description",
                 reqData.summary \o S_blankLine \o DescriptionOrEmpty(reqData)),
             "summary", ShortSummary(reqData, entityRef))
    ELSE reqData

(* router.ts:51-53: the server-side stamps; the clock is the request's     *)
(* place in the order of arrival                                           *)
Stamp(body, now) ==
  LET a == Put(body, "createdAt", now)
      b == IF Has(a, "createdBy")
             THEN Put(a, "updatedBy", a.createdBy)
             ELSE Without(a, "updatedBy")
  IN  Put(b, "updatedAt", now)

(* router.ts:97: the tag calls for a ticket *)
TagWantsTicket(reqData) ==
  ~(Has(reqData, "tag") /\ MatchesPositive(reqData.tag))

(* router.ts:96 and 140; type is a string here *)
IsJira(type) == UpperCaseIs(type, S_JIRA)
IsMail(type) == UpperCaseIs(type, S_MAIL)

(* router.ts:99-108: the configured host the annotation names, else the    *)
(* first configured one                                                    *)
ResolveHost(annotations) ==
  LET hit == {i \in 1..Len(JiraIntegrations) :
                Has(annotations, "host")
                /\ JiraIntegrations[i].host = annotations.host}
  IN  IF hit # {}
        THEN JiraIntegrations[CHOOSE i \in hit : \A j \in hit : i <= j].host
        ELSE JiraIntegrations[1].host

(* router.ts:136 *)
TicketUrl(host, key) == <<host, "/browse/", key>>

(* router.ts:144-146 *)
MailSubject(reqData) ==
  (IF Has(reqData, "tag") THEN reqData.tag ELSE S_undefined)
    \o S_dash \o FeedbackTypeName(reqData) \o S_reportedFor
    \o (IF Has(reqData, "projectId")
          THEN NamePart(reqData.projectId)
          ELSE S_undefined)

(* router.ts:140: a mail is due, for the type MAIL or a reply-to that is   *)
(* not the empty string; type is undefined when the annotation is missing, *)
(* and reading it throws before this is asked                              *)
MailDue(annotations) ==
  \/ IsMail(annotations.type)
  \/ Has(annotations, "emailTo") /\ annotations.emailTo # ""

----------------------------------------------------------------------------
(* The feedback store: feedbackId -> record *)

CheckFeedbackId(st, id) == id \in DOMAIN st

(* the record stored under a fresh id, which is also what is returned *)
StoredRecord(record, id) == Put(record, "feedbackId", id)

StoreFeedback(st, record, id) ==
  [k \in DOMAIN st \cup {id} |->
     IF k = id THEN StoredRecord(record, id) ELSE st[k]]

(* the fields of data written over the row of data.feedbackId; no row, no  *)
(* change                                                                  *)
UpdateFeedback(st, data) ==
  IF CheckFeedbackId(st, data.feedbackId)
    THEN [st EXCEPT ![data.feedbackId] = Merge(@, data)]
    ELSE st

DeleteFeedbackById(st, id) == [k \in DOMAIN st \ {id} |-> st[k]]

----------------------------------------------------------------------------
(* State *)

VARIABLES
  store,        \* the feedback table
  nextId,       \* the number of ids the store has issued
  rq,           \* the requests, in order of arrival: each handler's state
  log,          \* the logger.error calls made
  ticketCalls,  \* the createJiraTicket calls issued
  mails,        \* the mailer.sendMail calls made
  deleted       \* history: the ids deleteFeedbackById has been called on

vars == <<store, nextId, rq, log, ticketCalls, mails, deleted>>

Ids == 1..MaxPost

(* JSON objects with one field, and the choice of having it or not *)
Obj(f, v) == [g \in {f} |-> v]
Field(f, vs) == {Obj(f, v) : v \in vs}
Optional(f, vs) == {Empty} \cup Field(f, vs)

U_manual == <<"https://jira.one", "/browse/", "OLD-7">>

(* the fields every body of the model has *)
BaseBody == [feedbackType |-> "ISSUE", createdBy |-> U_ann]

(* The request bodies of POST /.  Rejected ones: the summary missing or    *)
(* blank.  Accepted ones: the description given or not and either kind of  *)
(* tag, for each kind of entity; either kind of tag for the entity whose   *)
(* type has a dotless i and whose reply-to is empty; and one that brings   *)
(* its own ticketUrl.                                                      *)
PostBodies ==
  { Merge(Merge(s, BaseBody),
          [tag |-> S_Bad, projectId |-> P_doc]) :
      s \in Optional("summary", {<<"U+00A0", "\f">>}) }
  \cup
  { Merge(Merge(t, BaseBody),
          [summary |-> <<"a">>, description |-> <<"d">>, projectId |-> P_old]) :
      t \in Field("tag", {S_Good, S_Bad}) }
  \cup
  { Merge(Merge(Merge(d, t), p), Merge(Obj("summary", <<"a">>), BaseBody)) :
      d \in Optional("description", {<<"d">>}),
      t \in Field("tag", {S_Good, S_Bad}),
      p \in Field("projectId", {P_doc, P_web, P_app, P_lib}) }
  \cup
  { Merge([summary |-> <<"a">>, tag |-> S_Bad, projectId |-> P_doc,
           ticketUrl |-> U_manual], BaseBody) }

(* the request bodies of PATCH /:id *)
PatchBodies ==
  { Obj("summary", <<" ">>),
    [summary |-> <<"b">>, description |-> <<"e">>],
    Obj("ticketUrl", U_manual) }

(* A request as it arrives.  stored and updated are what the store        *)
(* answered the handler's insert and update; body and hist are history:    *)
(* the body as the client sent it, and what had happened to the id when    *)
(* the request arrived.                                                    *)
NewRequest(kind, pc, id, reqData) ==
  [kind |-> kind, pc |-> pc, id |-> id, reqData |-> reqData,
   entityRef |-> Empty, responses |-> <<>>, at |-> "",
   stored |-> "none", updated |-> "none",
   body |-> reqData, hist |-> ""]

(* res.status(status).json(body) *)
Respond(q, status, body) ==
  [q EXCEPT !.responses = Append(@, [status |-> status, body |-> body])]

(* The statuses the error handler the router installs (router.ts:296) may  *)
(* answer with; it is the framework's and takes the status from the error, *)
(* so the model leaves the status open among these.                        *)
ErrorStatuses == {400, 404, 500}

(* the handler threw at a step *)
Thrown(q, step) == [q EXCEPT !.pc = "threw", !.at = step]

(* the handler threw at a step and the error handler takes over: it        *)
(* answers with an error status, unless a response has been sent already,  *)
(* and then the client sees nothing of the failure                         *)
Threw(q, step, status) ==
  IF q.responses = <<>>
    THEN Respond(Thrown(q, step), status, [error |-> <<"thrown">>])
    ELSE Thrown(q, step)

Posts == {i \in DOMAIN rq : rq[i].kind = "POST"}

Init ==
  /\ store = Empty
  /\ nextId = 0
  /\ rq = <<>>
  /\ log = {}
  /\ ticketCalls = {}
  /\ mails = {}
  /\ deleted = {}

----------------------------------------------------------------------------
(* POST / *)

(* router.ts:46-57: the summary check, the stamps, the entity lookup is    *)
(* issued                                                                  *)
PostReceive(body, maxPost) ==
  /\ Len(rq) < MaxReq
  /\ Cardinality(Posts) < maxPost
  /\ rq' = Append(rq,
       IF SummaryEmpty(body)
         THEN Respond(NewRequest("POST", "done", 0, body),
                      500, [error |-> <<"Summary field empty">>])
         ELSE [NewRequest("POST", "entity", 0, body)
                 EXCEPT !.reqData = Stamp(body, Len(rq) + 1)])
  /\ UNCHANGED <<store, nextId, log, ticketCalls, mails, deleted>>

(* router.ts:55-72: the entity lookup returns or throws; the summary is    *)
(* cut to size; the store call is issued                                   *)
PostEntity(r) ==
  /\ rq[r].kind = "POST" /\ rq[r].pc = "entity"
  /\ \/ \E status \in ErrorStatuses :
          rq' = [rq EXCEPT ![r] = Threw(@, "entity", status)]
     \/ /\ Has(rq[r].reqData, "projectId")
        /\ LET e == Catalog(rq[r].reqData.projectId)
           IN  rq' = [rq EXCEPT ![r] =
                        [@ EXCEPT !.entityRef = e,
                                  !.reqData = DemoteSummary(@, e),
                                  !.pc = "store"]]
  /\ UNCHANGED <<store, nextId, log, ticketCalls, mails, deleted>>

(* Created with the status of a read *)
CreatedAs200(q, respObj) ==
  [q EXCEPT !.responses =
     Append(@, [status |-> 200,
                body |-> [message |-> <<FeedbackTypeName(q.reqData),
                                        "created successfully">>,
                          data |-> respObj]])]

(* router.ts:80-83 *)
Created(q, respObj) ==
  Respond(q, 201,
          [message |-> <<FeedbackTypeName(q.reqData), "created successfully">>,
           data |-> respObj])

(* PostStore with the 201 moved behind the side effects: for an entity     *)
(* with annotations the handler goes on to the reporter lookup without     *)
(* having answered                                                         *)
PostStoreAnswersLast(r) ==
  /\ rq[r].kind = "POST" /\ rq[r].pc = "store"
  /\ \/ /\ rq' = [rq EXCEPT ![r] =
                    Respond([@ EXCEPT !.pc = "done", !.stored = "failed"], 500,
                            [error |-> <<"Failed to create",
                                         FeedbackTypeName(@.reqData)>>])]
        /\ UNCHANGED <<store, nextId>>
     \/ LET id == nextId + 1
            q == rq[r]
            t == [q EXCEPT !.id = id,
                           !.stored = "row",
                           !.reqData = Put(@, "feedbackId", id),
                           !.pc = IF Has(q.entityRef, "annotations")
                                    THEN "reporter"
                                    ELSE "done"]
        IN  /\ nextId' = id
            /\ store' = StoreFeedback(store, q.reqData, id)
            /\ rq' = [rq EXCEPT ![r] =
                 IF Has(q.entityRef, "annotations")
                   THEN t
                   ELSE Created(t, StoredRecord(q.reqData, id))]
  /\ UNCHANGED <<log, ticketCalls, mails, deleted>>

(* router.ts:72-92: the store answers; 500 on its failure, else 201 and,   *)
(* for an entity with annotations, the reporter lookup is issued           *)
PostStore(r) ==
  /\ rq[r].kind = "POST" /\ rq[r].pc = "store"
  /\ \/ /\ rq' = [rq EXCEPT ![r] =
                    Respond([@ EXCEPT !.pc = "done", !.stored = "failed"], 500,
                            [error |-> <<"Failed to create",
                                         FeedbackTypeName(@.reqData)>>])]
        /\ UNCHANGED <<store, nextId>>
     \/ LET id == nextId + 1
            q == rq[r]
        IN  /\ nextId' = id
            /\ store' = StoreFeedback(store, q.reqData, id)
            /\ rq' = [rq EXCEPT ![r] =
                 Created([q EXCEPT !.id = id,
                                   !.stored = "row",
                                   !.reqData = Put(@, "feedbackId", id),
                                   !.pc = IF Has(q.entityRef, "annotations")
                                            THEN "reporter"
                                            ELSE "done"],
                         StoredRecord(q.reqData, id))]
  /\ UNCHANGED <<log, ticketCalls, mails, deleted>>

(* router.ts:140-181: the mail, when one is due, and the handler returns;  *)
(* sent tells whether the transport delivers it, which nothing awaits      *)
MailAndReturn(r, q, sent) ==
  LET ann == q.entityRef.annotations
  IN  /\ mails' =
           IF MailDue(ann)
             THEN mails \cup
                    {[req |-> r, to |-> ReporterEmail,
                      replyTo |-> IF Has(ann, "emailTo")
                                    THEN ann.emailTo
                                    ELSE "undefined",
                      subject |-> MailSubject(q.reqData),
                      sent |-> sent]}
             ELSE mails
      /\ rq' = [rq EXCEPT ![r] = [q EXCEPT !.pc = "done"]]

(* router.ts:89-116: the reporter lookup returns or throws; the type is    *)
(* read; either the tracker's user lookup is issued or the mail step runs  *)
PostReporter(r) ==
  /\ rq[r].kind = "POST" /\ rq[r].pc = "reporter"
  /\ LET q == rq[r]
         ann == q.entityRef.annotations
     IN  \/ /\ \E status \in ErrorStatuses :
                 rq' = [rq EXCEPT ![r] = Threw(q, "reporter", status)]
            /\ UNCHANGED mails
         \/ /\ ~Has(ann, "type")
            /\ \E status \in ErrorStatuses :
                 rq' = [rq EXCEPT ![r] = Threw(q, "type", status)]
            /\ UNCHANGED mails
         \/ /\ Has(ann, "type")
            /\ IsJira(ann.type) /\ TagWantsTicket(q.reqData)
            /\ rq' = [rq EXCEPT ![r] = [q EXCEPT !.pc = "username"]]
            /\ UNCHANGED mails
         \/ /\ Has(ann, "type")
            /\ ~(IsJira(ann.type) /\ TagWantsTicket(q.reqData))
            /\ \E sent \in BOOLEAN : MailAndReturn(r, q, sent)
  /\ UNCHANGED <<store, nextId, log, ticketCalls, deleted>>

(* router.ts:126-135: the arguments of createJiraTicket the model keeps *)
TicketCall(r, q, username) ==
  LET ann == q.entityRef.annotations
  IN  [req |-> r, host |-> ResolveHost(ann),
       projectKey |-> IF Has(ann, "projectKey")
                        THEN ann.projectKey
                        ELSE "undefined",
       summary |-> q.reqData.summary, username |-> username]

(* router.ts:112-135: the user lookup returns or throws; the description   *)
(* and the label are built, which throws on a missing description or tag;  *)
(* the ticket creation is issued                                           *)
PostUsername(r) ==
  /\ rq[r].kind = "POST" /\ rq[r].pc = "username"
  /\ LET q == rq[r]
     IN  \/ /\ \E status \in ErrorStatuses :
                 rq' = [rq EXCEPT ![r] = Threw(q, "username", status)]
            /\ UNCHANGED ticketCalls
         \/ /\ ~Has(q.reqData, "description")
            /\ \E status \in ErrorStatuses :
                 rq' = [rq EXCEPT ![r] = Threw(q, "description", status)]
            /\ UNCHANGED ticketCalls
         \/ /\ Has(q.reqData, "description") /\ ~Has(q.reqData, "tag")
            /\ \E status \in ErrorStatuses :
                 rq' = [rq EXCEPT ![r] = Threw(q, "tag", status)]
            /\ UNCHANGED ticketCalls
         \/ /\ Has(q.reqData, "description") /\ Has(q.reqData, "tag")
            /\ \E username \in JiraUsernames :
                 ticketCalls' = ticketCalls \cup {TicketCall(r, q, username)}
            /\ rq' = [rq EXCEPT ![r] = [q EXCEPT !.pc = "ticket"]]
  /\ UNCHANGED <<store, nextId, log, mails, deleted>>

(* router.ts:126-137: the ticket creation returns a key or throws; the     *)
(* ticket URL is set on the handler's copy and the update is issued        *)
PostTicket(r) ==
  /\ rq[r].kind = "POST" /\ rq[r].pc = "ticket"
  /\ LET q == rq[r]
     IN  \/ \E status \in ErrorStatuses :
              rq' = [rq EXCEPT ![r] = Threw(q, "ticket", status)]
         \/ LET ann == q.entityRef.annotations
                key == TicketKey(IF Has(ann, "projectKey")
                                   THEN ann.projectKey
                                   ELSE "undefined")
            IN  rq' = [rq EXCEPT ![r] =
                         [q EXCEPT !.reqData =
                                     Put(@, "ticketUrl",
                                         TicketUrl(ResolveHost(ann), key)),
                                   !.pc = "update"]]
  /\ UNCHANGED <<store, nextId, log, ticketCalls, mails, deleted>>

(* router.ts:137: what the back-fill hands to updateFeedback *)
BackfillData(reqData) == reqData

(* router.ts:137-181: the update runs in the store (its result is not      *)
(* looked at), then the mail step                                          *)
PostUpdate(r) ==
  /\ rq[r].kind = "POST" /\ rq[r].pc = "update"
  /\ \E dbOk \in BOOLEAN, sent \in BOOLEAN :
       LET q == rq[r]
           hit == dbOk /\ CheckFeedbackId(store, q.id)
       IN  /\ store' = IF dbOk
                         THEN UpdateFeedback(store, BackfillData(q.reqData))
                         ELSE store
           /\ MailAndReturn(r, [q EXCEPT !.updated =
                                  IF hit THEN "row" ELSE "norow"], sent)
  /\ UNCHANGED <<nextId, log, ticketCalls, deleted>>

----------------------------------------------------------------------------
(* GET /:id *)

(* what the store's history says of an id when a request for it arrives *)
History(id) ==
  IF id \in deleted THEN "deleted"
  ELSE IF id > nextId THEN "never"
  ELSE "stored"

(* router.ts:219-221 *)
NotFoundError(id) == [error |-> <<"No feedback found for id", id>>]

(* router.ts:278-280 and 291-293 *)
NotFoundMessage(id) == [message |-> <<"No feedback found for id", id>>]

(* router.ts:208-213, 219-221: the id is checked; 404 when absent, else    *)
(* the read is issued                                                      *)
GetCheck(id) ==
  /\ Len(rq) < MaxReq
  /\ LET q == [NewRequest("GET", "fetch", id, Empty)
                 EXCEPT !.hist = History(id)]
     IN  rq' = Append(rq,
           IF CheckFeedbackId(store, id)
             THEN q
             ELSE Respond([q EXCEPT !.pc = "done"], 404, NotFoundError(id)))
  /\ UNCHANGED <<store, nextId, log, ticketCalls, mails, deleted>>

(* router.ts:212-217: the record as read now; when it is gone the read    *)
(* gives undefined, and the JSON of the answer has no data                 *)
GetFetch(r) ==
  /\ rq[r].kind = "GET" /\ rq[r].pc = "fetch"
  /\ LET q == rq[r]
     IN  rq' = [rq EXCEPT ![r] =
           Respond([q EXCEPT !.pc = "done"],
                   200,
                   IF CheckFeedbackId(store, q.id)
                     THEN [data |-> store[q.id],
                           message |-> <<"Feedback fetched successfully">>]
                     ELSE [message |-> <<"Feedback fetched successfully">>])]
  /\ UNCHANGED <<store, nextId, log, ticketCalls, mails, deleted>>

----------------------------------------------------------------------------
(* PATCH /:id *)

(* router.ts:261-268, 278-280 *)
PatchCheck(id, data) ==
  /\ Len(rq) < MaxReq
  /\ rq' = Append(rq,
       IF CheckFeedbackId(store, id)
         THEN [NewRequest("PATCH", "update", id, data)
                 EXCEPT !.reqData = Put(Put(data, "feedbackId", id),
                                        "updatedAt", Len(rq) + 1),
                        !.hist = History(id)]
         ELSE Respond([NewRequest("PATCH", "done", id, data)
                         EXCEPT !.hist = History(id)],
                      404, NotFoundMessage(id)))
  /\ UNCHANGED <<store, nextId, log, ticketCalls, mails, deleted>>

(* router.ts:268-275: the updated row, or nothing when the update fails    *)
(* or finds no row                                                         *)
PatchUpdate(r) ==
  /\ rq[r].kind = "PATCH" /\ rq[r].pc = "update"
  /\ \E dbOk \in BOOLEAN :
       LET q == rq[r]
           hit == dbOk /\ CheckFeedbackId(store, q.id)
           st == UpdateFeedback(store, q.reqData)
       IN  /\ store' = IF hit THEN st ELSE store
           /\ rq' = [rq EXCEPT ![r] =
                IF hit
                  THEN Respond([q EXCEPT !.pc = "done", !.updated = "row"],
                               200,
                               [data |-> st[q.id],
                                message |->
                                  <<"Feedback updated successfully">>])
                  ELSE Respond([q EXCEPT !.pc = "done", !.updated = "norow"],
                               500,
                               [message |->
                                  <<"Failed to edit the feedback">>])]
  /\ UNCHANGED <<nextId, log, ticketCalls, mails, deleted>>

----------------------------------------------------------------------------
(* DELETE /:id *)

(* res.status(..).json(..) on a response that may have been sent: the      *)
(* second send throws, and the error handler has nothing left to answer    *)
Send(q, status, body) ==
  IF q.responses = <<>>
    THEN Respond([q EXCEPT !.pc = "done"], status, body)
    ELSE Thrown(q, "headers")

(* router.ts:283-285, 290-293: the id is checked; when absent the error is *)
(* logged and 404 sent, else the delete is issued                          *)
DeleteCheck(id) ==
  /\ Len(rq) < MaxReq
  /\ LET q == [NewRequest("DELETE", "delete", id, Empty)
                 EXCEPT !.hist = History(id)]
     IN  IF CheckFeedbackId(store, id)
           THEN /\ rq' = Append(rq, q)
                /\ UNCHANGED log
           ELSE /\ rq' = Append(rq, Send(q, 404, NotFoundMessage(id)))
                /\ log' = log \cup {[req |-> Len(rq) + 1, id |-> id]}
  /\ UNCHANGED <<store, nextId, ticketCalls, mails, deleted>>

(* DeleteDo without the call of deleteFeedbackById *)
DeleteDoKeepsRow(r) ==
  /\ rq[r].kind = "DELETE" /\ rq[r].pc = "delete"
  /\ deleted' = deleted \cup {rq[r].id}
  /\ log' = log \cup {[req |-> r, id |-> rq[r].id]}
  /\ rq' = [rq EXCEPT ![r] =
       [@ EXCEPT !.pc = "threw", !.at = "headers",
                 !.responses = <<[status |-> 200,
                                  body |-> [message |->
                                              <<"Deleted successfully">>]]>>]]
  /\ UNCHANGED <<store, nextId, ticketCalls, mails>>

(* router.ts:286-293: the row is deleted and 200 sent; the handler does    *)
(* not return there, so it goes on to log the error and to send the 404    *)
DeleteDo(r) ==
  /\ rq[r].kind = "DELETE" /\ rq[r].pc = "delete"
  /\ store' = DeleteFeedbackById(store, rq[r].id)
  /\ deleted' = deleted \cup {rq[r].id}
  /\ log' = log \cup {[req |-> r, id |-> rq[r].id]}
  /\ rq' = [rq EXCEPT ![r] =
       Send(Respond(@, 200, [message |-> <<"Deleted successfully">>]),
            404, NotFoundMessage(@.id))]
  /\ UNCHANGED <<nextId, ticketCalls, mails>>

----------------------------------------------------------------------------
(* The requests of any clients, handled one await at a time *)

Next ==
  \/ \E body \in PostBodies : PostReceive(body, MaxPost)
  \/ \E r \in DOMAIN rq : PostEntity(r)
  \/ \E r \in DOMAIN rq : PostStore(r)
  \/ \E r \in DOMAIN rq : PostReporter(r)
  \/ \E r \in DOMAIN rq : PostUsername(r)
  \/ \E r \in DOMAIN rq : PostTicket(r)
  \/ \E r \in DOMAIN rq : PostUpdate(r)
  \/ \E id \in Ids : GetCheck(id)
  \/ \E r \in DOMAIN rq : GetFetch(r)
  \/ \E id \in Ids, data \in PatchBodies : PatchCheck(id, data)
  \/ \E r \in DOMAIN rq : PatchUpdate(r)
  \/ \E id \in Ids : DeleteCheck(id)
  \/ \E r \in DOMAIN rq : DeleteDo(r)

Spec == Init /\ [][Next]_vars

----------------------------------------------------------------------------
(* One submission, over a wider choice of texts *)

S_ann == <<"a", "n", "n">>

(* summaries at, under and over the limit, blank ones of either size; the  *)
(* description, the feedback type and the reporter given or not; entities  *)
(* with a title, without one, and unknown to the catalog                   *)
SummaryBodies ==
  { Merge(Merge(Merge(Merge(Merge(s, d), f), c), p), Obj("tag", S_Bad)) :
      s \in Optional("summary",
                     {<<>>, <<" ", "a", "\t">>, <<"U+000B", "U+2028">>,
                      Rep(" ", SummaryLimit + 1),
                      Rep("a", SummaryLimit - 1), Rep("a", SummaryLimit),
                      Rep("a", SummaryLimit + 1),
                      <<" ">> \o Rep("b", SummaryLimit + 1)}),
      d \in Optional("description", {<<>>, <<"d">>}),
      f \in Optional("feedbackType", {"FEEDBACK", "ISSUE"}),
      c \in Optional("createdBy", {U_ann, S_ann}),
      p \in Field("projectId", {P_doc, P_api, P_gone}) }

NextSummary ==
  \/ \E body \in SummaryBodies : PostReceive(body, 1)
  \/ \E r \in DOMAIN rq : PostEntity(r)
  \/ \E r \in DOMAIN rq : PostStore(r)
  \/ \E r \in DOMAIN rq : PostReporter(r)
  \/ \E r \in DOMAIN rq : PostUsername(r)
  \/ \E r \in DOMAIN rq : PostTicket(r)
  \/ \E r \in DOMAIN rq : PostUpdate(r)

SpecSummary == Init /\ [][NextSummary]_vars

----------------------------------------------------------------------------
(* Properties *)

PostRequests == {r \in DOMAIN rq : rq[r].kind = "POST"}

(* the POST requests the store has taken a record from *)
Accepted == {r \in PostRequests : rq[r].stored = "row"}

(* the record the 201 of an accepted POST carries *)
Echoed(r) == rq[r].responses[1].body.data

HasSlash(s) == \E i \in 1..Len(s) : s[i] = "/"

(* the text between the first "/" of a reference and the next one *)
AfterSlash(s) ==
  LET i == CHOOSE k \in 1..Len(s) : s[k] = "/" /\ \A j \in 1..(k - 1) : s[j] # "/"
      rest == SubSeq(s, i + 1, Len(s))
      ends == {k \in 1..Len(rest) : rest[k] = "/"}
      n == IF ends = {} THEN Len(rest)
           ELSE (CHOOSE k \in ends : \A j \in ends : k <= j) - 1
  IN  SubSeq(rest, 1, n)

(* C5: a summary of more than 255 characters is stored as the description  *)
(* (the summary, a blank line, the submitted description or nothing) and   *)
(* its place is taken by "<Feedback|Issue> reported by <name> for <title   *)
(* or name>"; a summary of at most 255 characters and its description are  *)
(* stored as submitted.                                                    *)
C5_SummaryDemotion ==
  \A r \in Accepted :
    LET b == rq[r].body
        rec == Echoed(r)
        e == Catalog(b.projectId)
        kept == store[rq[r].id]
    IN  /\ kept.summary = rec.summary
        /\ Has(kept, "description") = Has(rec, "description")
        /\ Has(rec, "description") => kept.description = rec.description
        /\ IF Len(b.summary) > 255
             THEN /\ rec.description =
                       b.summary \o <<"\n", "\n">>
                         \o (IF Has(b, "description") THEN b.description
                                                      ELSE <<>>)
                  /\ (Has(b, "createdBy") /\ HasSlash(b.createdBy)
                      /\ Has(e, "name")) =>
                       rec.summary =
                         (IF Has(b, "feedbackType")
                             /\ b.feedbackType = "FEEDBACK"
                            THEN S_Feedback ELSE S_Issue)
                         \o <<" ", "r", "e", "p", "o", "r", "t", "e", "d",
                              " ", "b", "y", " ">>
                         \o AfterSlash(b.createdBy)
                         \o <<" ", "f", "o", "r", " ">>
                         \o (IF Has(e, "title") THEN e.title ELSE e.name)
             ELSE /\ rec.summary = b.summary
                  /\ Has(rec, "description") = Has(b, "description")
                  /\ Has(b, "description") =>
                       rec.description = b.description

(* C5, reached: a long summary from a known reporter for an entity with a  *)
(* title has been stored                                                   *)
C5_Witness ==
  \E r \in Accepted :
    /\ Len(rq[r].body.summary) > 255
    /\ Has(rq[r].body, "createdBy") /\ HasSlash(rq[r].body.createdBy)
    /\ Has(rq[r].body, "description") /\ rq[r].body.description # <<>>
    /\ Has(Catalog(rq[r].body.projectId), "title")
    /\ store[rq[r].id].summary # rq[r].body.summary
    /\ rq[r].pc = "done"

Requests(kind) == {r \in DOMAIN rq : rq[r].kind = kind}

Finished(r) == rq[r].pc \in {"done", "threw"}

(* the request got exactly one response, of this status *)
Only(r, status) ==
  Len(rq[r].responses) = 1 /\ rq[r].responses[1].status = status

(* a GET of an id that was stored when it arrived and has not been         *)
(* deleted since answers 200 with the record of that id                    *)
GetFindsStored ==
  \A g \in Requests("GET") :
    (rq[g].pc = "done" /\ rq[g].hist = "stored" /\ rq[g].id \notin deleted) =>
      /\ Only(g, 200)
      /\ Has(rq[g].responses[1].body, "data")
      /\ Has(rq[g].responses[1].body.data, "feedbackId")
      /\ rq[g].responses[1].body.data.feedbackId = rq[g].id
      /\ \E r \in Accepted : rq[r].id = rq[g].id /\ r < g

(* the 201 of a POST echoes a record whose feedbackId is an id of the      *)
(* store (until a DELETE of it)                                            *)
EchoesStoredId(r) ==
  /\ Only(r, 201)
  /\ Has(Echoed(r), "feedbackId")
  /\ Echoed(r).feedbackId = rq[r].id
  /\ rq[r].id \in DOMAIN store \/ rq[r].id \in deleted
  /\ rq[r].id \in DOMAIN store => store[rq[r].id].feedbackId = rq[r].id

(* C1 as stated: every POST / whose summary is not blank answers 201 with  *)
(* the stored record, whose feedbackId a later GET /:id finds.  (Read with *)
(* the entity lookup returning: the handler reaches its store call.)       *)
C1_Original ==
  /\ \A r \in PostRequests :
       (~SummaryEmpty(rq[r].body) /\ rq[r].pc \notin {"entity", "store"}
        /\ rq[r].at # "entity") =>
         EchoesStoredId(r)
  /\ GetFindsStored

(* C1, amended: every POST / whose summary is not blank, whose entity      *)
(* lookup returned and whose record the store took answers 201 with the    *)
(* stored record, whose feedbackId a later GET /:id finds (no DELETE of it *)
(* in between); when the store fails the answer is a single 500 and no     *)
(* record is stored.                                                       *)
C1_Amended ==
  /\ \A r \in PostRequests :
       /\ (~SummaryEmpty(rq[r].body) /\ rq[r].stored = "row") =>
            EchoesStoredId(r)
       /\ rq[r].stored = "failed" =>
            /\ Only(r, 500) /\ rq[r].id = 0
            /\ \A id \in DOMAIN store :
                 \E a \in Accepted : rq[a].id = id
  /\ GetFindsStored

(* C1, reached: a GET has answered 200 for the id an earlier POST echoed *)
C1_Witness ==
  \E r \in Accepted, g \in Requests("GET") :
    /\ r < g /\ rq[g].id = rq[r].id /\ rq[g].pc = "done"
    /\ Only(r, 201) /\ Only(g, 200)
    /\ Has(rq[g].responses[1].body, "data")
    /\ rq[g].responses[1].body.data.feedbackId = Echoed(r).feedbackId

(* C2: once DELETE /:id has removed a record, the id is not in the store   *)
(* again and every GET /:id that arrives later answers 404 with an error   *)
(* naming the id; so does a GET of an id the store has never issued.       *)
C2_DeletedStaysGone ==
  /\ \A id \in deleted : ~CheckFeedbackId(store, id)
  /\ \A d \in Requests("DELETE") :
       (rq[d].hist = "stored" /\ Finished(d)) => rq[d].id \in deleted
  /\ \A g \in Requests("GET") :
       rq[g].hist \in {"deleted", "never"} =>
         /\ rq[g].pc = "done"
         /\ rq[g].responses =
              <<[status |-> 404,
                 body |-> [error |-> <<"No feedback found for id", rq[g].id>>]]>>

(* C2, reached: a record was stored, a DELETE of it answered 200, and a    *)
(* later GET of the id answered 404                                        *)
C2_Witness ==
  \E r \in Accepted, d \in Requests("DELETE"), g \in Requests("GET") :
    /\ r < d /\ d < g
    /\ rq[d].id = rq[r].id /\ rq[g].id = rq[r].id
    /\ rq[d].responses # <<>> /\ rq[d].responses[1].status = 200
    /\ rq[g].hist = "deleted" /\ Only(g, 404)

PostSteps == {"reporter", "type", "username", "description", "tag", "ticket"}

(* a step of the POST handler after its response has started *)
SideEffectsStarted(r) ==
  \/ rq[r].pc \in {"reporter", "username", "ticket", "update"}
  \/ rq[r].at \in PostSteps
  \/ rq[r].updated # "none"
  \/ \E c \in ticketCalls : c.req = r
  \/ \E m \in mails : m.req = r

(* a step before the ticket-URL update failed, or the update did *)
FailedBeforeBackfill(r) ==
  rq[r].at \in PostSteps \/ rq[r].updated = "norow"

MailFailed(r) == \E m \in mails : m.req = r /\ ~m.sent

Patched(id) == \E p \in Requests("PATCH") : rq[p].id = id /\ rq[p].hist = "stored"

(* C8 as stated: the 201 is sent before any side effect of the request     *)
(* starts, and if any step after the response fails the client still has   *)
(* the single 201 and the record is as created, with no ticket URL         *)
(* written to it.                                                          *)
C8_Original ==
  \A r \in PostRequests :
    /\ SideEffectsStarted(r) => Only(r, 201)
    /\ (FailedBeforeBackfill(r) \/ MailFailed(r)) =>
         Only(r, 201) /\ rq[r].updated # "row"

(* C8, amended: the 201 is sent before any side effect of the request      *)
(* starts and stays the single response whatever fails later; if a step    *)
(* up to and including the ticket-URL update fails, the request has        *)
(* written nothing to the record, which is as created unless another       *)
(* request changed it, and so it is when the mail fails with no back-fill  *)
(* before it; a mail that fails after the back-fill leaves the ticket URL  *)
(* in the record.                                                          *)
C8_Amended ==
  \A r \in PostRequests :
    /\ SideEffectsStarted(r) => Only(r, 201)
    /\ (FailedBeforeBackfill(r) \/ MailFailed(r)) => Only(r, 201)
    /\ FailedBeforeBackfill(r) =>
         /\ rq[r].updated # "row"
         /\ (rq[r].id \in DOMAIN store /\ ~Patched(rq[r].id)) =>
              store[rq[r].id] = Echoed(r)
    /\ (MailFailed(r) /\ rq[r].updated = "none"
        /\ rq[r].id \in DOMAIN store /\ ~Patched(rq[r].id)) =>
         store[rq[r].id] = Echoed(r)
    /\ (rq[r].updated = "row" /\ rq[r].id \in DOMAIN store
        /\ ~Patched(rq[r].id)) =>
         /\ Has(store[rq[r].id], "ticketUrl")
         /\ store[rq[r].id].ticketUrl = rq[r].reqData.ticketUrl

(* C8, reached: a ticket creation failed after the 201, and the record is  *)
(* in the store as created                                                 *)
C8_Witness ==
  \E r \in Accepted :
    /\ rq[r].pc = "threw" /\ rq[r].at = "ticket"
    /\ Only(r, 201)
    /\ rq[r].id \in DOMAIN store
    /\ store[rq[r].id] = Echoed(r)
    /\ \E c \in ticketCalls : c.req = r

Annotations(r) == rq[r].entityRef.annotations

(* the POST requests for an entity whose feedback/type is JIRA *)
JiraPosts ==
  {r \in Accepted :
     /\ Has(rq[r].entityRef, "annotations")
     /\ Has(Annotations(r), "type")
     /\ Annotations(r).type = S_JIRA}

(* the POST requests for an entity of type MAIL or with a reply-to *)
MailPosts ==
  {r \in Accepted :
     /\ Has(rq[r].entityRef, "annotations")
     /\ \/ Has(Annotations(r), "type") /\ Annotations(r).type = S_MAIL
        \/ Has(Annotations(r), "emailTo") /\ Annotations(r).emailTo # ""}

(* C3: for an entity of type JIRA, a tag that matches Excellent|Good never *)
(* brings a ticket-creation call; any other tag brings one, and once the   *)
(* handler is through (no lookup or tracker call having failed) the stored *)
(* record carries '<host>/browse/<key>'.                                   *)
C3_Claim ==
  \A r \in JiraPosts :
    IF MatchesPositive(rq[r].body.tag)
      THEN \A c \in ticketCalls : c.req # r
      ELSE (Finished(r) /\ rq[r].at \notin {"reporter", "username", "ticket"}) =>
             /\ \E c \in ticketCalls : c.req = r
             /\ rq[r].reqData.ticketUrl =
                  <<ResolveHost(Annotations(r)), "/browse/",
                    Annotations(r).projectKey \o "-01">>
             /\ (rq[r].id \in DOMAIN store /\ ~Patched(rq[r].id)) =>
                  /\ Has(store[rq[r].id], "ticketUrl")
                  /\ store[rq[r].id].ticketUrl = rq[r].reqData.ticketUrl

(* C4: for an entity of type MAIL or with a reply-to annotation, once the  *)
(* handler is through (the reporter's address having been found) a mail    *)
(* has been sent for the submission, its subject naming the tag and the    *)
(* project, whatever the other annotations and the fate of the ticket.     *)
C4_Claim ==
  \A r \in MailPosts :
    (Finished(r) /\ rq[r].at # "reporter") =>
      \E m \in mails :
        /\ m.req = r
        /\ Contains(m.subject, rq[r].body.tag)
        /\ Contains(m.subject, AfterSlash(rq[r].body.projectId))

(* C6: every stored record has a summary that is not blank, whatever POST, *)
(* PATCH and DELETE requests came; a POST with a missing or blank summary  *)
(* answers 500 with an error, stores nothing and calls nobody.             *)
C6_Claim ==
  /\ \A id \in DOMAIN store :
       Has(store[id], "summary") /\ Trim(store[id].summary) # <<>>
  /\ \A r \in PostRequests :
       SummaryEmpty(rq[r].body) =>
         /\ rq[r].responses =
              <<[status |-> 500, body |-> [error |-> <<"Summary field empty">>]]>>
         /\ rq[r].stored = "none" /\ rq[r].id = 0
         /\ \A c \in ticketCalls : c.req # r
         /\ \A m \in mails : m.req # r

(* createJiraTicket has returned a key to the request *)
TicketCreated(r) == rq[r].pc = "update" \/ rq[r].updated # "none"

(* C7: a stored record has a ticketUrl only if a createJiraTicket call of  *)
(* the request that created it has succeeded.                              *)
C7_Claim ==
  \A id \in DOMAIN store :
    Has(store[id], "ticketUrl") =>
      \E r \in Accepted : rq[r].id = id /\ TicketCreated(r)

(* C9: a DELETE /:id gets exactly one response, 200 when the id exists,    *)
(* and then nothing is logged as not found and no 404 is tried; 404 only   *)
(* when the id is absent.                                                  *)
C9_Claim ==
  \A d \in Requests("DELETE") :
    Finished(d) =>
      /\ Len(rq[d].responses) = 1
      /\ rq[d].hist = "stored" =>
           /\ rq[d].responses[1].status = 200
           /\ \A l \in log : l.req # d
           /\ rq[d].at # "headers"
      /\ rq[d].responses[1].status = 404 => rq[d].hist # "stored"

(* C10: the ticket-URL back-fill of POST / changes no field of a stored    *)
(* record but its ticketUrl, and brings no deleted record back.            *)
C10_Claim ==
  [][\A r \in DOMAIN rq :
       (rq[r].kind = "POST" /\ rq[r].pc = "update" /\ rq'[r].pc = "done") =>
         /\ DOMAIN store' = DOMAIN store
         /\ \A id \in DOMAIN store :
              /\ DOMAIN store[id] \subseteq DOMAIN store'[id]
              /\ \A f \in DOMAIN store[id] \ {"ticketUrl"} :
                   store'[id][f] = store[id][f]]_vars

=============================================================================
